---- MODULE Spec2Model ----
(***************************************************************************)
(* Plan Review Submission Pipeline of PlanReview (src/planreview.py,       *)
(* src/udochat.py): registry lookup, OCR extraction, the call to the       *)
(* external AI collaborator and the decoding of its raw response.          *)
(*                                                                         *)
(* Text is a sequence of lexical units.  A response is a sequence of       *)
(* tokens, each standing for a fixed run of characters: the braces and     *)
(* brackets are one token each, so find('{'), rfind('}'), strip() and      *)
(* startswith('{') work on the sequence as they work on the characters.    *)
(* A Python str held in a result is a sequence of segments.                *)
(*                                                                         *)
(* The submission functions reach the external AI through the module       *)
(* attribute udochat.create_flask_response, looked up when the call is     *)
(* made.  `binding` says what the attribute holds: the function defined in *)
(* udochat.py, or a substitute collaborator (a test double, as in the      *)
(* scenarios with a mocked upstream) that accepts the keywords passed.     *)
(***************************************************************************)
EXTENDS Integers, Sequences, FiniteSets, TLC

----------------------------------------------------------------------------
(* Bounds of the explored inputs *)

\* longest run of prose tokens put before and after the JSON part of a response
MaxProse == 1

\* most comments in the "comments" array of a generated response
MaxComments == 2

----------------------------------------------------------------------------
(* Tokens of a response *)

LB == "{"
RB == "}"
LK == "["
RK == "]"
CM == ","
WS == " "
WORD == "Thanks"

\* `"key":` tokens (a member name with its colon)
KeyTokens ==
  {"\"comments\":", "\"body\":", "\"severity\":", "\"category\":", "\"reasoning\":"}

\* JSON string literals
StrTokens ==
  {"\"x\"", "\"y\"", "\"info\"", "\"urgent\"", "\"general\"", "\"building\""}

\* the Python str a string literal or a member name decodes to
TextOf(tok) ==
  CASE tok = "\"comments\":"  -> <<"comments">>
    [] tok = "\"body\":"      -> <<"body">>
    [] tok = "\"severity\":"  -> <<"severity">>
    [] tok = "\"category\":"  -> <<"category">>
    [] tok = "\"reasoning\":" -> <<"reasoning">>
    [] tok = "\"x\""          -> <<"x">>
    [] tok = "\"y\""          -> <<"y">>
    [] tok = "\"info\""       -> <<"info">>
    [] tok = "\"urgent\""     -> <<"urgent">>
    [] tok = "\"general\""    -> <<"general">>
    [] tok = "\"building\""   -> <<"building">>

----------------------------------------------------------------------------
(* JSON values: every value is a record [t, s, items] *)

Str(txt)    == [t |-> "str", s |-> txt, items |-> <<>>]
Num(n)      == [t |-> "num", s |-> <<n>>, items |-> <<>>]
Arr(vs)     == [t |-> "arr", s |-> <<>>, items |-> vs]
Mem(k, v)   == [t |-> "mem", s |-> k, items |-> <<v>>]
Obj(ms)     == [t |-> "obj", s |-> <<>>, items |-> ms]

\* key in d  (d a dict)
HasKey(d, k) == \E i \in 1..Len(d.items) : d.items[i].s = k

\* d[key]: a repeated member name keeps its last value, as json.loads builds the dict
Get(d, k) ==
  LET i == CHOOSE j \in 1..Len(d.items) :
             /\ d.items[j].s = k
             /\ \A l \in (j+1)..Len(d.items) : d.items[l].s # k
  IN d.items[i].items[1]

----------------------------------------------------------------------------
(* json.loads on a token sequence *)

\* position of the first non-whitespace token at or after i (Len(s)+1 if none)
RECURSIVE SkipWs(_, _)
SkipWs(s, i) == IF i <= Len(s) /\ s[i] = WS THEN SkipWs(s, i + 1) ELSE i

Bad == [ok |-> FALSE, val |-> Str(<<>>), nxt |-> 0]

RECURSIVE ParseValue(_, _), ParseMembers(_, _, _), ParseElements(_, _, _)

\* a value starting at the first non-whitespace token at or after i
ParseValue(s, i) ==
  LET j == SkipWs(s, i) IN
  IF j > Len(s) THEN Bad
  ELSE IF s[j] \in StrTokens THEN [ok |-> TRUE, val |-> Str(TextOf(s[j])), nxt |-> j + 1]
  ELSE IF s[j] = LB THEN
    LET k == SkipWs(s, j + 1) IN
    IF k <= Len(s) /\ s[k] = RB
    THEN [ok |-> TRUE, val |-> Obj(<<>>), nxt |-> k + 1]
    ELSE ParseMembers(s, k, <<>>)
  ELSE IF s[j] = LK THEN
    LET k == SkipWs(s, j + 1) IN
    IF k <= Len(s) /\ s[k] = RK
    THEN [ok |-> TRUE, val |-> Arr(<<>>), nxt |-> k + 1]
    ELSE ParseElements(s, k, <<>>)
  ELSE Bad

\* members of an object from position i (a member name is due), acc the ones read
ParseMembers(s, i, acc) ==
  LET j == SkipWs(s, i) IN
  IF j > Len(s) \/ s[j] \notin KeyTokens THEN Bad
  ELSE
    LET v == ParseValue(s, j + 1) IN
    IF ~v.ok THEN Bad
    ELSE
      LET k    == SkipWs(s, v.nxt)
          acc2 == Append(acc, Mem(TextOf(s[j]), v.val))
      IN IF k > Len(s) THEN Bad
         ELSE IF s[k] = RB THEN [ok |-> TRUE, val |-> Obj(acc2), nxt |-> k + 1]
         ELSE IF s[k] = CM THEN ParseMembers(s, k + 1, acc2)
         ELSE Bad

\* elements of an array from position i (a value is due), acc the ones read
ParseElements(s, i, acc) ==
  LET v == ParseValue(s, i) IN
  IF ~v.ok THEN Bad
  ELSE
    LET k    == SkipWs(s, v.nxt)
        acc2 == Append(acc, v.val)
    IN IF k > Len(s) THEN Bad
       ELSE IF s[k] = RK THEN [ok |-> TRUE, val |-> Arr(acc2), nxt |-> k + 1]
       ELSE IF s[k] = CM THEN ParseElements(s, k + 1, acc2)
       ELSE Bad

\* json.loads(s): ok = FALSE stands for json.JSONDecodeError (no value, or extra data)
JsonLoads(s) ==
  LET v == ParseValue(s, 1) IN
  IF v.ok /\ SkipWs(s, v.nxt) > Len(s) THEN [ok |-> TRUE, val |-> v.val]
  ELSE [ok |-> FALSE, val |-> Str(<<>>)]

----------------------------------------------------------------------------
(* str methods used by the decoder *)

\* s.strip(): leading and trailing whitespace removed
RECURSIVE Strip(_)
Strip(s) ==
  IF s = <<>> THEN s
  ELSE IF Head(s) = WS THEN Strip(Tail(s))
  ELSE IF s[Len(s)] = WS THEN Strip(SubSeq(s, 1, Len(s) - 1))
  ELSE s

\* s.startswith(tok)
StartsWith(s, tok) == s # <<>> /\ Head(s) = tok

\* s.find(tok): 0-based index of the first occurrence, -1 when there is none
Find(s, tok) ==
  IF \E i \in 1..Len(s) : s[i] = tok
  THEN (CHOOSE i \in 1..Len(s) : s[i] = tok /\ \A j \in 1..(i-1) : s[j] # tok) - 1
  ELSE -1

\* s.rfind(tok): 0-based index of the last occurrence, -1 when there is none
RFind(s, tok) ==
  IF \E i \in 1..Len(s) : s[i] = tok
  THEN (CHOOSE i \in 1..Len(s) : s[i] = tok /\ \A j \in (i+1)..Len(s) : s[j] # tok) - 1
  ELSE -1

\* s[a:b] for 0 <= a <= b
Slice(s, a, b) == SubSeq(s, a + 1, b)

----------------------------------------------------------------------------
(* Reviewer names: a name is a sequence of segments *)

\* str.lower() of one segment
LowerSeg(seg) ==
  CASE seg = "Stormwater" -> "stormwater"
    [] seg = "Building"   -> "building"
    [] seg = "Plan"       -> "plan"
    [] seg = "Unknown"    -> "unknown"
    [] seg = " Reviewer"  -> " reviewer"
    [] seg = " Two"       -> " two"
    [] OTHER              -> seg

\* name.lower()
Lower(name) == [i \in 1..Len(name) |-> LowerSeg(name[i])]

\* txt.replace(old, ""): every occurrence of the segment removed
RECURSIVE ReplaceAll(_, _)
ReplaceAll(txt, old) ==
  IF txt = <<>> THEN <<>>
  ELSE IF Head(txt) = old THEN ReplaceAll(Tail(txt), old)
  ELSE <<Head(txt)>> \o ReplaceAll(Tail(txt), old)

StormwaterName == <<"Stormwater", " Reviewer">>
BuildingName   == <<"Building", " Reviewer">>
PlanTwoName    == <<"Plan", " Reviewer", " Two">>
UnknownName    == <<"Unknown", " Reviewer">>

\* the names a caller may submit with
Names == {StormwaterName, BuildingName, PlanTwoName, UnknownName}

\* contents activereviewers.json may have (the names of its 'reviewers' list)
Registries ==
  { {StormwaterName, BuildingName, PlanTwoName},
    {BuildingName} }

----------------------------------------------------------------------------
(* Response decoding *)

\* FallbackData with the body trimmed instead of kept whole
FallbackData_StrippedBody(assistant_response, category) ==
  Obj(<< Mem(<<"comments">>, Arr(<<
    Obj(<< Mem(<<"page_key">>, Str(<<"Sheet 1">>)),
           Mem(<<"region">>, Obj(<< Mem(<<"x">>, Num("0")), Mem(<<"y">>, Num("0")),
                                    Mem(<<"w">>, Num("100")), Mem(<<"h">>, Num("100")) >>)),
           Mem(<<"body">>, Str(Strip(assistant_response))),
           Mem(<<"suggested_fix">>,
               Str(<<"Please review the assistant's feedback for specific recommendations.">>)),
           Mem(<<"severity">>, Str(<<"major">>)),
           Mem(<<"category">>, Str(category)),
           Mem(<<"code_refs">>, Arr(<<>>)) >>) >>)) >>)

\* the fallback structure: one comment carrying the whole response as its body
FallbackData(assistant_response, category) ==
  Obj(<< Mem(<<"comments">>, Arr(<<
    Obj(<< Mem(<<"page_key">>, Str(<<"Sheet 1">>)),
           Mem(<<"region">>, Obj(<< Mem(<<"x">>, Num("0")), Mem(<<"y">>, Num("0")),
                                    Mem(<<"w">>, Num("100")), Mem(<<"h">>, Num("100")) >>)),
           Mem(<<"body">>, Str(assistant_response)),
           Mem(<<"suggested_fix">>,
               Str(<<"Please review the assistant's feedback for specific recommendations.">>)),
           Mem(<<"severity">>, Str(<<"major">>)),
           Mem(<<"category">>, Str(category)),
           Mem(<<"code_refs">>, Arr(<<>>)) >>) >>)) >>)

\* the search for the braces, shared by the variants of the decoder below
SpanOrFallback(assistant_response, end_idx, fallback) ==
  LET start_idx == Find(assistant_response, LB) IN
  IF start_idx >= 0 /\ end_idx > start_idx THEN
    LET part == JsonLoads(Slice(assistant_response, start_idx, end_idx)) IN
    IF part.ok THEN [data |-> part.val, branch |-> "Recovered"] ELSE fallback
  ELSE fallback

\* DecodeWith that also searches for the braces when parsing the whole text fails
DecodeWith_Retry(assistant_response, category) ==
  LET fallback == [data |-> FallbackData(assistant_response, category), branch |-> "Fallback"]
      whole    == JsonLoads(assistant_response)
  IN IF StartsWith(Strip(assistant_response), LB) /\ whole.ok
     THEN [data |-> whole.val, branch |-> "Parsed"]
     ELSE SpanOrFallback(assistant_response, RFind(assistant_response, RB) + 1, fallback)

\* DecodeWith with end_idx = rfind('}'), the closing brace left out of the slice
DecodeWith_OffByOne(assistant_response, category) ==
  LET fallback == [data |-> FallbackData(assistant_response, category), branch |-> "Fallback"]
      whole    == JsonLoads(assistant_response)
  IN IF StartsWith(Strip(assistant_response), LB)
     THEN IF whole.ok THEN [data |-> whole.val, branch |-> "Parsed"] ELSE fallback
     ELSE SpanOrFallback(assistant_response, RFind(assistant_response, RB), fallback)

\* the try/except json.JSONDecodeError block shared by both submission functions:
\* data is comments_data, branch the path taken
DecodeWith(assistant_response, category) ==
  LET fallback == [data |-> FallbackData(assistant_response, category), branch |-> "Fallback"] IN
  IF StartsWith(Strip(assistant_response), LB) THEN
    LET whole == JsonLoads(assistant_response) IN
    IF whole.ok THEN [data |-> whole.val, branch |-> "Parsed"] ELSE fallback
  ELSE
    LET start_idx == Find(assistant_response, LB)
        end_idx   == RFind(assistant_response, RB) + 1
    IN IF start_idx >= 0 /\ end_idx > start_idx THEN
         LET part == JsonLoads(Slice(assistant_response, start_idx, end_idx)) IN
         IF part.ok THEN [data |-> part.val, branch |-> "Recovered"] ELSE fallback
       ELSE fallback

\* category of the fallback comment of submit_plan_to_reviewer
CategoryOf(reviewer_name) == ReplaceAll(Lower(reviewer_name), " reviewer")

\* decoding in submit_plan_to_stormwater_reviewer
DecodeStormwater(assistant_response) == DecodeWith(assistant_response, <<"stormwater">>)

\* decoding in submit_plan_to_reviewer
DecodeReviewer(assistant_response, reviewer_name) ==
  DecodeWith(assistant_response, CategoryOf(reviewer_name))

----------------------------------------------------------------------------
(* Responses the external reviewer may give *)

RECURSIVE SeqsUpTo(_, _)
\* the sequences over S of length at most n
SeqsUpTo(S, n) ==
  IF n = 0 THEN {<<>>}
  ELSE LET shorter == SeqsUpTo(S, n - 1)
       IN shorter \cup {Append(q, x) : q \in shorter, x \in S}

RECURSIVE Join(_)
\* the token sequences of qs, separated by commas
Join(qs) ==
  IF qs = <<>> THEN <<>>
  ELSE IF Len(qs) = 1 THEN qs[1]
  ELSE qs[1] \o <<CM>> \o Join(Tail(qs))

CommentTokens(body, severity, category) ==
  <<LB, "\"body\":", body, CM, "\"severity\":", severity, CM, "\"category\":", category, RB>>

\* comment objects a reviewer may write; the second has values outside the enums
CommentTexts ==
  { CommentTokens("\"x\"", "\"info\"", "\"general\""),
    CommentTokens("\"y\"", "\"urgent\"", "\"building\"") }

\* [c1,c2,...] for up to MaxComments comments
ArrayTexts == { <<LK>> \o Join(cs) \o <<RK>> : cs \in SeqsUpTo(CommentTexts, MaxComments) }

\* the JSON part of a response: complete objects, objects lacking a usable
\* "comments" array, and damaged text
Cores ==
       { <<LB, "\"comments\":">> \o a \o <<RB>> : a \in ArrayTexts }
  \cup { <<>>,
         <<LB, "\"reasoning\":", "\"x\"", CM, "\"comments\":", LK, LB, RB, RK, RB>>,
         <<LB, "\"comments\":", LK, LB, RB, RK>>,
         <<LB, "\"comments\":", LK, LB, RB, RK, RB, RB>>,
         <<LB, RB>>,
         <<LB, WS, RB>>,
         <<LB, "\"reasoning\":", "\"x\"", RB>>,
         <<LB, "\"comments\":", "\"x\"", RB>>,
         <<LB, "\"comments\":", LB, RB, RB>>,
         <<LB, "\"comments\":", LK, "\"x\"", CM, RK, RB>>,
         <<LB, "\"comments\":", LK, RK, CM, "\"comments\":", "\"x\"", RB>>,
         <<LB, WORD, RB>>,
         <<LK, LB, RB, RK>>,
         <<RB, WORD, LB>> }

ProseTokens == {WORD, WS, LB, RB}

\* prose before and after the JSON part
Responses ==
  { pre \o core \o post :
      pre \in SeqsUpTo(ProseTokens, MaxProse),
      core \in Cores,
      post \in SeqsUpTo(ProseTokens, MaxProse) }

----------------------------------------------------------------------------
(* OCR extraction: extract_text_with_ocr_blocks *)

\* the largest number of pages of a document, and of word records of all its
\* pages together
MaxPages == 2
MaxWords == 4

Min(S) == CHOOSE x \in S : \A y \in S : x <= y
Max(S) == CHOOSE x \in S : \A y \in S : x >= y

RECURSIVE Sum(_)
\* sum(confidences)
Sum(q) == IF q = <<>> THEN 0 ELSE Head(q) + Sum(Tail(q))

\* the quotient a / b rounded to the nearest integer
IntDiv_Rounded(a, b) == (2 * a + b) \div (2 * b)

\* int(v) of the quotient a / b: truncation toward zero
IntDiv(a, b) == IF a >= 0 THEN a \div b ELSE -((-a) \div b)

\* one row of the dict pytesseract.image_to_data returns
WordRecord(block_num, text, conf, left, top, width, height) ==
  [block_num |-> block_num, text |-> text, conf |-> conf, left |-> left, top |-> top,
   width |-> width, height |-> height]

\* a filter that lets confidence 30 through
Survives_From30(w) == Strip(w.text) # <<>> /\ w.conf >= 30

\* `if text and int(data['conf'][i]) > 30`, text being the stripped word
Survives(w) == Strip(w.text) # <<>> /\ w.conf > 30

\* the rows of data that pass the filter, in order
Surviving(data) == SelectSeq(data, Survives)

\* the block number of every row, repeated ones included
BlockNums_Repeated(rows, seen) == [i \in 1..Len(rows) |-> rows[i].block_num]

RECURSIVE BlockNums(_, _)
\* the keys of the dict `blocks` in insertion order: the block numbers of the
\* surviving rows, each at its first occurrence
BlockNums(rows, seen) ==
  IF rows = <<>> THEN <<>>
  ELSE IF Head(rows).block_num \in seen THEN BlockNums(Tail(rows), seen)
  ELSE <<Head(rows).block_num>> \o BlockNums(Tail(rows), seen \cup {Head(rows).block_num})

\* blocks[block_num]: the surviving rows of one block, in order
RowsOf(data, block_num) ==
  LET InBlock(w) == w.block_num = block_num IN SelectSeq(Surviving(data), InBlock)

RECURSIVE JoinSpace(_)
\* ' '.join(texts)
JoinSpace(texts) ==
  IF texts = <<>> THEN <<>>
  ELSE IF Len(texts) = 1 THEN texts[1]
  ELSE texts[1] \o <<WS>> \o JoinSpace(Tail(texts))

\* the bounding box whose far corner is the largest left and top of the rows
BBox_Corners(rows) ==
  LET I == 1..Len(rows)
      min_x == Min({rows[i].left : i \in I})
      min_y == Min({rows[i].top : i \in I})
      max_x == Max({rows[i].left : i \in I})
      max_y == Max({rows[i].top : i \in I})
  IN [x |-> min_x, y |-> min_y, width |-> max_x - min_x, height |-> max_y - min_y]

\* the bounding box computed for the rows of one block
BBox(rows) ==
  LET I == 1..Len(rows)
      min_x == Min({rows[i].left : i \in I})
      min_y == Min({rows[i].top : i \in I})
      max_x == Max({rows[i].left + rows[i].width : i \in I})
      max_y == Max({rows[i].top + rows[i].height : i \in I})
  IN [x |-> min_x, y |-> min_y, width |-> max_x - min_x, height |-> max_y - min_y]

\* the dict appended to ocr_results for one block
TextBlock(rows, page_num, block_num) ==
  [text       |-> JoinSpace([i \in 1..Len(rows) |-> Strip(rows[i].text)]),
   bbox       |-> BBox(rows),
   page       |-> page_num,
   confidence |-> IntDiv(Sum([i \in 1..Len(rows) |-> rows[i].conf]), Len(rows)),
   block_id   |-> block_num]

\* the dicts one pass of the page loop appends, in the order of blocks.items()
PageBlocks(data, page_num) ==
  LET nums == BlockNums(Surviving(data), {})
  IN [k \in 1..Len(nums) |-> TextBlock(RowsOf(data, nums[k]), page_num, nums[k])]

----------------------------------------------------------------------------
(* Prompt formatting: format_ocr_for_prompt *)

\* the items of ocr_data on one page, in input order
OnPage(ocr_data, page) ==
  LET Here(b) == b.page = page IN SelectSeq(ocr_data, Here)

RECURSIVE Ascending(_)
\* sorted(pages.keys())
Ascending(S) ==
  IF S = {} THEN <<>> ELSE <<Min(S)>> \o Ascending(S \ {Min(S)})

\* a sort key of y alone
KeyAfter_YOnly(a, b) == a.bbox.y > b.bbox.y

\* the sort key (y, x) of a is greater than that of b
KeyAfter(a, b) ==
  \/ a.bbox.y > b.bbox.y
  \/ a.bbox.y = b.bbox.y /\ a.bbox.x > b.bbox.x

RECURSIVE Insert(_, _)
\* b placed behind every item whose key is not greater than its own
Insert(sorted, b) ==
  IF sorted = <<>> THEN <<b>>
  ELSE IF KeyAfter(Head(sorted), b) THEN <<b>> \o sorted
  ELSE <<Head(sorted)>> \o Insert(Tail(sorted), b)

RECURSIVE SortBlocks(_)
\* sorted(page_blocks, key=lambda x: (x['bbox']['y'], x['bbox']['x'])): stable
SortBlocks(page_blocks) ==
  IF page_blocks = <<>> THEN <<>>
  ELSE Insert(SortBlocks(SubSeq(page_blocks, 1, Len(page_blocks) - 1)),
              page_blocks[Len(page_blocks)])

\* the lines written for block number i of a page
BlockLines(i, block) ==
  <<"Block ", ToString(i), " [Position: x=", ToString(block.bbox.x), ", y=",
    ToString(block.bbox.y), ", size=", ToString(block.bbox.width), "x",
    ToString(block.bbox.height), ", confidence=", ToString(block.confidence), "%]:", "\n",
    "  \"">> \o block.text \o <<"\"", "\n", "", "\n">>

RECURSIVE AllBlockLines(_, _)
AllBlockLines(sorted_blocks, i) ==
  IF i > Len(sorted_blocks) THEN <<>>
  ELSE BlockLines(i, sorted_blocks[i]) \o AllBlockLines(sorted_blocks, i + 1)

\* the lines written for one page
PageLines(ocr_data, page_num) ==
  LET page_blocks == OnPage(ocr_data, page_num) IN
  <<"PAGE ", ToString(page_num), " (", ToString(Len(page_blocks)), " text blocks):", "\n",
    "----------------------------------------", "\n">>
  \o AllBlockLines(SortBlocks(page_blocks), 1) \o <<"", "\n">>

RECURSIVE AllPageLines(_, _)
AllPageLines(ocr_data, page_nums) ==
  IF page_nums = <<>> THEN <<>>
  ELSE PageLines(ocr_data, Head(page_nums)) \o AllPageLines(ocr_data, Tail(page_nums))

\* format_ocr_for_prompt(ocr_data)
FormatOcrForPrompt(ocr_data) ==
  IF ocr_data = <<>> THEN <<"No text extracted from the document.">>
  ELSE <<"=== EXTRACTED TEXT FROM PLAN DOCUMENTS: USE ONLY FOR REFERENCE NOT COMMENTS ===\n",
         "\n">>
       \o AllPageLines(ocr_data, Ascending({ocr_data[i].page : i \in 1..Len(ocr_data)}))
       \o <<"=== END EXTRACTED TEXT ===\n">>

----------------------------------------------------------------------------
(* State *)

VARIABLES
  binding,        \* what udochat.create_flask_response is bound to when it is called
  registry,       \* the reviewer names activereviewers.json holds
  pc,             \* position of the submission in progress
  fn,             \* the submission function running
  reviewer_name,  \* its reviewer_name argument (<<>> for the stormwater function)
  title,          \* its title argument
  calls,          \* the collaborators invoked by this submission, in order
  ocr_data,       \* what extract_text_with_ocr_blocks returned
  message,        \* the message built for the AI collaborator
  upstream,       \* the dict create_flask_response returned
  result,         \* the dict the submission function returned
  branch,         \* the decoding path taken by this submission
  raised,         \* the exception raised inside the function's try block, "" if none
  escaped         \* the exception that left the submission function, "" if none

\* the variables of a submission
pipeline == <<binding, registry, pc, fn, reviewer_name, title, calls, ocr_data, message,
              upstream, result, branch, raised, escaped>>

VARIABLES
  xpc,            \* position of extract_text_with_ocr_blocks
  page_num,       \* the page the loop over images has reached
  page_data,      \* the dicts image_to_data returned, one per page read
  ocr_results,    \* the list the extractor is building
  returned,       \* the list the extractor returned
  failed_page     \* the page on which the OCR backend raised, 0 if none

\* the variables of an extraction
extraction == <<xpc, page_num, page_data, ocr_results, returned, failed_page>>

VARIABLES
  vpc,              \* position of create_flask_response / send_to_responses_api
  chat_message,     \* the message argument
  prompt_id,        \* the prompt_id argument (<<>> for None)
  conversation_id,  \* the conversation_id argument (<<>> for None)
  file_data,        \* the file_data argument
  filename,         \* the filename argument (<<>> for None)
  user_content,     \* the content parts of the user role
  dispatched,       \* the user contents handed to client.responses.create
  api_result        \* the dict create_flask_response returned

\* the variables of a call of create_flask_response
vision == <<vpc, chat_message, prompt_id, conversation_id, file_data, filename,
            user_content, dispatched, api_result>>

VARIABLES
  workers,       \* the request slots that serve submit-plan requests
  req,           \* per slot: the submit-plan request in progress
  rooms,         \* the reviewrooms table
  clock,         \* the database time, one tick per committed submission
  last_commit    \* the slot and comments_data of the latest committed submission

\* the variables of the submit-plan handlers
submitting == <<workers, req, rooms, clock, last_commit>>

VARIABLES
  userdata,      \* the userdata table: the row of each registered username
  lpc,           \* where the login handler stands
  username,      \* user_credentials.username, stripped once validated
  password,      \* user_credentials.password
  user,          \* the row the query loaded (found: FALSE for None)
  status_code,   \* the status code of the answer (0: none yet)
  commits        \* the committed logins in order: password accepted or not, and the answer

\* the variables of the login handler
authenticating == <<userdata, lpc, username, password, user, status_code, commits>>

VARIABLES
  fpc,              \* where the call of format_ocr_for_prompt stands
  format_arg,       \* its argument ocr_data
  formatted_text    \* the string it returned

\* the variables of a call of format_ocr_for_prompt
formatting == <<fpc, format_arg, formatted_text>>

VARIABLES
  chatters,         \* the request slots that serve chat requests
  chat,             \* per slot: the chat request in progress
  conversations,    \* the conversations table; conversation_id is the position
  view              \* the read request being answered

\* the variables of the chat and read handlers
chatting == <<chatters, chat, conversations, view>>

vars == <<pipeline, extraction, vision, submitting, authenticating, formatting, chatting>>

\* the variables a submission leaves alone
besidePipeline ==
  <<extraction, vision, submitting, authenticating, formatting, chatting>>

\* the variables an extraction leaves alone
besideExtraction ==
  <<pipeline, vision, submitting, authenticating, formatting, chatting>>

\* the variables a call of create_flask_response leaves alone
besideVision ==
  <<pipeline, extraction, submitting, authenticating, formatting, chatting>>

\* the variables a submit-plan handler leaves alone
besideSubmitting ==
  <<pipeline, extraction, vision, authenticating, formatting, chatting>>

\* the variables a call of format_ocr_for_prompt leaves alone
besideFormatting ==
  <<pipeline, extraction, vision, submitting, authenticating, chatting>>

\* the variables the chat and read handlers leave alone
besideChatting ==
  <<pipeline, extraction, vision, submitting, authenticating, formatting>>

\* the variables the login handler leaves alone
besideAuthenticating ==
  <<pipeline, extraction, vision, submitting, formatting, chatting>>

NoValue == Str(<<>>)

NoResult ==
  [status |-> "none", error |-> <<>>, details |-> <<>>, has_comments_data |-> FALSE,
   comments_data |-> NoValue, raw_response |-> <<>>, reviewer_name |-> <<>>]

NoUpstream == [status |-> "none", response |-> <<>>]

\* the classes `except Exception` catches among the ones the collaborators raise
ExceptionClasses == {"FileNotFoundError", "TypeError", "ConnectionError", "RuntimeError"}

\* an except clause naming OSError only
Caught_OSErrorOnly(exc) == exc \in {"FileNotFoundError", "ConnectionError"}

\* except Exception as e (planreview.py:273, planreview.py:388)
Caught(exc) == exc \in ExceptionClasses

\* the dicts returned on the error paths
ErrorResult(error, details) ==
  [NoResult EXCEPT !.status = "error", !.error = error, !.details = details]

\* an except clause that returns a dict without status
ExceptResult_NoStatus(exc) == NoResult

\* the outer except clause of the running function
ExceptResult(exc) ==
  IF fn = "stormwater"
  THEN ErrorResult(<<"Failed to process plan with AI assistant">>, <<exc>>)
  ELSE ErrorResult(<<"Failed to process plan with ">> \o reviewer_name, <<exc>>)

\* an exception raised inside the function's try block
Raise(exc) ==
  /\ raised' = exc
  /\ IF Caught(exc)
     THEN /\ result' = ExceptResult(exc)
          /\ escaped' = ""
     ELSE /\ result' = NoResult
          /\ escaped' = exc

\* no submission is running
NoSubmission ==
  /\ pc = "idle"
  /\ fn = "none"
  /\ reviewer_name = <<>>
  /\ title = <<>>
  /\ calls = <<>>
  /\ ocr_data = <<>>
  /\ message = <<>>
  /\ upstream = NoUpstream
  /\ result = NoResult
  /\ branch = "none"
  /\ raised = ""
  /\ escaped = ""

\* no extraction is running
NoExtraction ==
  /\ xpc = "idle"
  /\ page_num = 0
  /\ page_data = <<>>
  /\ ocr_results = <<>>
  /\ returned = <<>>
  /\ failed_page = 0

\* file_data=None
NoFile == [type |-> "none", content |-> ""]

NoApiResult == [status |-> "none", response |-> <<>>, prompt_id |-> <<>>,
                conversation_id |-> <<>>]

\* no call of create_flask_response is running
NoApiCall ==
  /\ vpc = "idle"
  /\ chat_message = <<>>
  /\ prompt_id = <<>>
  /\ conversation_id = <<>>
  /\ file_data = NoFile
  /\ filename = <<>>
  /\ user_content = <<>>
  /\ dispatched = <<>>
  /\ api_result = NoApiResult

\* the largest number of committed submissions
MaxCommits == 3

Slots == {1, 2}
RoomIds == {1, 2}
UserIds == {1, 2}

\* the body of an HTTP answer of submit-plan (code 0: none yet)
NoResponse == [code |-> 0, error |-> <<>>, details |-> <<>>, review_comments |-> NoValue]

NoRequest ==
  [pc |-> "idle", via |-> "none", user_id |-> 0, review_room_id |-> 0,
   reviewer_name |-> <<>>, loaded |-> NoValue, result |-> NoResult,
   response |-> NoResponse]

\* room 1 belongs to user 1 and holds a PDF, room 2 belongs to user 2 and holds
\* none; neither carries comments yet
InitialRooms ==
  [id \in RoomIds |->
     [user_id |-> id, is_active |-> TRUE, has_pdf |-> (id = 1), review_comments |-> NoValue,
      last_message_at |-> 0, updated_at |-> 0]]

\* no submit-plan request is being served
NoRequests(ws) ==
  /\ workers = ws
  /\ req = [w \in Slots |-> NoRequest]
  /\ rooms = InitialRooms
  /\ clock = 0
  /\ last_commit = [slot |-> 0, comments_data |-> NoValue]

\* no call of format_ocr_for_prompt is running
NoFormatting ==
  /\ fpc = "idle"
  /\ format_arg = <<>>
  /\ formatted_text = <<>>

\* the answer of the chat handler (code 0: none yet; conversation_id 0: None)
NoChatAnswer == [code |-> 0, status |-> "", conversation_id |-> 0]

NoChatRequest ==
  [pc |-> "idle", via |-> "none", user_id |-> 0, message |-> <<>>, conversation_id |-> 0,
   result |-> NoUpstream, found |-> FALSE, current_history |-> <<>>, saved |-> FALSE,
   answer |-> NoChatAnswer]

\* no read request is being answered
NoView == [kind |-> "none", user_id |-> 0, id |-> 0, code |-> 0, ids |-> {},
           shown |-> [table |-> "none", id |-> 0]]

\* no chat request is being served and no conversation exists yet
NoChat(ws) ==
  /\ chatters = ws
  /\ chat = [w \in Slots |-> NoChatRequest]
  /\ conversations = <<>>
  /\ view = NoView

MAX_LOGIN_ATTEMPTS == 5

\* the largest number of committed logins
MaxLogins == 7

\* the registered user and their password
KnownUser == <<"alice">>
KnownPassword == "secret"

\* user = None
NoUser == [found |-> FALSE, login_attempts |-> 0]

\* signup stores login_attempts=0
InitialUserdata ==
  [u \in {KnownUser} |-> [password |-> KnownPassword, login_attempts |-> 0]]

\* no login request is being served
NoLogin ==
  /\ userdata = InitialUserdata
  /\ lpc = "idle"
  /\ username = <<>>
  /\ password = ""
  /\ user = NoUser
  /\ status_code = 0
  /\ commits = <<>>

Init ==
  /\ binding \in {"udochat", "substitute"}
  /\ registry \in Registries
  /\ NoSubmission
  /\ NoExtraction
  /\ NoApiCall
  /\ NoRequests({})
  /\ NoLogin
  /\ NoFormatting
  /\ NoChat({})

----------------------------------------------------------------------------
(* Operations *)

\* what extract_text_with_ocr_blocks may return: the blocks of a one-page
\* document, or [] (nothing legible, or the OCR backend failed)
OcrResults ==
  { <<>>, PageBlocks(<<WordRecord(1, <<"NOTES">>, 96, 10, 20, 30, 8)>>, 1) }

\* plan titles
Titles == { <<"Lot 7 Grading Plan">> }

\* the message submit_plan_to_stormwater_reviewer builds
StormwaterMessage(plan_title, ocr_text) ==
  <<"Please review this development plan for stormwater compliance.\n\nPlan Title: ">>
  \o plan_title
  \o <<"\n\nThis is the first sheet of the plan set that needs review according to municipal stormwater regulations.\n\n">>
  \o ocr_text
  \o <<"\n\nBased on the extracted text and layout information above, please provide your review">>

\* the message submit_plan_to_reviewer builds
ReviewerMessage(plan_title, ocr_text) ==
  <<"Please review this development plan.\n\nPlan Title: ">>
  \o plan_title
  \o <<"\n\nThis is the first sheet of the plan set that needs review according to your role.\n\n">>
  \o ocr_text
  \o <<"\n\nRely on your file search tool for generating comments. Please provide your review.">>

\* ocr_text and message of the running function: submit_plan_to_reviewer
\* sets ocr_text = "" and does not call format_ocr_for_prompt
BuildMessage(blocks) ==
  IF fn = "stormwater"
  THEN StormwaterMessage(title, FormatOcrForPrompt(blocks))
  ELSE ReviewerMessage(title, <<>>)

\* a caller enters submit_plan_to_stormwater_reviewer(pdf_data, title)
SubmitStormwater ==
  /\ pc = "idle"
  /\ \E plan_title \in Titles : title' = plan_title
  /\ pc' = "lookup"
  /\ fn' = "stormwater"
  /\ UNCHANGED <<binding, registry, reviewer_name, calls, ocr_data, message, upstream,
                 result, branch, raised, escaped>>
  /\ UNCHANGED besidePipeline

\* a caller enters submit_plan_to_reviewer(pdf_data, title, reviewer_name)
SubmitReviewer ==
  /\ pc = "idle"
  /\ \E name \in Names : reviewer_name' = name
  /\ \E plan_title \in Titles : title' = plan_title
  /\ pc' = "lookup"
  /\ fn' = "reviewer"
  /\ UNCHANGED <<binding, registry, calls, ocr_data, message, upstream, result, branch,
                 raised, escaped>>
  /\ UNCHANGED besidePipeline

\* the name the running function looks up
LookupName == IF fn = "stormwater" THEN StormwaterName ELSE reviewer_name

\* the dict returned when the lookup finds nothing
NotFoundResult ==
  IF fn = "stormwater"
  THEN ErrorResult(<<"Stormwater", " reviewer", " not found in configuration">>, <<>>)
  ELSE ErrorResult(<<"Reviewer '">> \o reviewer_name \o <<"' not found in configuration">>, <<>>)

\* Lookup without the `if not reviewer` test
Lookup_Unchecked ==
  /\ pc = "lookup"
  /\ calls' = Append(calls, "registry")
  /\ \E readable \in BOOLEAN :
       IF ~readable THEN
         /\ Raise("FileNotFoundError")
         /\ pc' = "done"
       ELSE
         /\ pc' = "ocr"
         /\ UNCHANGED <<result, raised, escaped>>
  /\ UNCHANGED <<binding, registry, fn, reviewer_name, title, ocr_data, message, upstream,
                 branch>>
  /\ UNCHANGED besidePipeline

\* get_stormwater_reviewer() / get_reviewer_by_name(reviewer_name) and the
\* `if not reviewer` test; load_reviewers raises when the file cannot be read
Lookup ==
  /\ pc = "lookup"
  /\ calls' = Append(calls, "registry")
  /\ \E readable \in BOOLEAN :
       IF ~readable THEN
         /\ Raise("FileNotFoundError")
         /\ pc' = "done"
       ELSE IF LookupName \in registry THEN
         /\ pc' = "ocr"
         /\ UNCHANGED <<result, raised, escaped>>
       ELSE
         /\ result' = NotFoundResult
         /\ pc' = "done"
         /\ UNCHANGED <<raised, escaped>>
  /\ UNCHANGED <<binding, registry, fn, reviewer_name, title, ocr_data, message, upstream,
                 branch>>
  /\ UNCHANGED besidePipeline

\* ocr_data = extract_text_with_ocr_blocks(pdf_data), then ocr_text and message
Extract ==
  /\ pc = "ocr"
  /\ calls' = Append(calls, "ocr")
  /\ \E blocks \in OcrResults :
       /\ ocr_data' = blocks
       /\ message' = BuildMessage(blocks)
  /\ pc' = "call"
  /\ UNCHANGED <<binding, registry, fn, reviewer_name, title, upstream, result, branch,
                 raised, escaped>>
  /\ UNCHANGED besidePipeline

\* result = udochat.create_flask_response(message=..., assistant_id=..., thread_id=None).
\* The function of udochat.py:299 takes (message, prompt_id, conversation_id,
\* file_data, filename): called with these keywords it raises TypeError before
\* its body runs.  A substitute bound to the name takes any keywords and returns
\* a dict or raises.
Call ==
  /\ pc = "call"
  /\ calls' = Append(calls, "ai")
  /\ IF binding = "udochat" THEN
       /\ Raise("TypeError")
       /\ pc' = "done"
       /\ UNCHANGED upstream
     ELSE
       \/ \E r \in Responses :
            /\ upstream' = [status |-> "success", response |-> r]
            /\ pc' = "decode"
            /\ UNCHANGED <<result, raised, escaped>>
       \/ /\ upstream' = [status |-> "error", response |-> <<"Error: ", "upstream">>]
          /\ pc' = "decode"
          /\ UNCHANGED <<result, raised, escaped>>
       \/ \E exc \in {"ConnectionError", "RuntimeError"} :
            /\ Raise(exc)
            /\ pc' = "done"
            /\ UNCHANGED upstream
  /\ UNCHANGED <<binding, registry, fn, reviewer_name, title, ocr_data, message, branch>>
  /\ UNCHANGED besidePipeline

\* SuccessResult keeping the trimmed text as raw_response
SuccessResult_Stripped(decoded) ==
  [status |-> "success", error |-> <<>>, details |-> <<>>, has_comments_data |-> TRUE,
   comments_data |-> decoded.data, raw_response |-> Strip(upstream.response),
   reviewer_name |-> reviewer_name]

\* the dict returned when the upstream status is 'success'
SuccessResult(decoded) ==
  [NoResult EXCEPT !.status = "success",
                   !.has_comments_data = TRUE,
                   !.comments_data = decoded.data,
                   !.raw_response = upstream.response,
                   !.reviewer_name = reviewer_name]

\* the dict returned when the upstream status is not 'success'
UpstreamErrorResult ==
  IF fn = "stormwater"
  THEN ErrorResult(<<"Failed to get response from assistant">>, upstream.response)
  ELSE ErrorResult(<<"Failed to get response from ">> \o reviewer_name, upstream.response)

\* the decoding this submission applies to the response
Decoded ==
  IF fn = "stormwater"
  THEN DecodeStormwater(upstream.response)
  ELSE DecodeReviewer(upstream.response, reviewer_name)

\* from `if result.get('status') == 'success'` to the return
Decode ==
  /\ pc = "decode"
  /\ IF upstream.status = "success"
     THEN /\ result' = SuccessResult(Decoded)
          /\ branch' = Decoded.branch
     ELSE /\ result' = UpstreamErrorResult
          /\ UNCHANGED branch
  /\ pc' = "done"
  /\ UNCHANGED <<binding, registry, fn, reviewer_name, title, calls, ocr_data, message,
                 upstream, raised, escaped>>
  /\ UNCHANGED besidePipeline

\* the function returns (or the exception leaves it): its locals are gone and
\* the next submission may start
Return ==
  /\ pc = "done"
  /\ pc' = "idle"
  /\ fn' = "none"
  /\ reviewer_name' = <<>>
  /\ title' = <<>>
  /\ calls' = <<>>
  /\ ocr_data' = <<>>
  /\ message' = <<>>
  /\ upstream' = NoUpstream
  /\ result' = NoResult
  /\ branch' = "none"
  /\ raised' = ""
  /\ escaped' = ""
  /\ UNCHANGED <<binding, registry>>
  /\ UNCHANGED besidePipeline

Next ==
  \/ SubmitStormwater
  \/ SubmitReviewer
  \/ Lookup
  \/ Extract
  \/ Call
  \/ Decode
  \/ Return

Spec == Init /\ [][Next]_vars

\* the running function leaves the statement it stands at: the steps Lookup,
\* Extract, Call and Decode, each of which is enabled wherever it stands
Proceeds ==
  /\ pc \in {"lookup", "ocr", "call", "decode"}
  /\ pc' \in {"ocr", "call", "decode", "done"}

\* a submission under way takes its next step: each step is straight-line code
\* of one synchronous function, and the collaborators (registry file, OCR,
\* the AI call) return or raise; callers need not submit again
SpecLive == Init /\ [][Next]_vars /\ WF_pc(Proceeds)

----------------------------------------------------------------------------
(* extract_text_with_ocr_blocks, page by page *)

\* rows the OCR backend may report: two words of block 1 with different boxes
\* (the second padded with whitespace, confidence just above the threshold),
\* a word of block 2, a blank row of high confidence, and a word whose
\* confidence is the threshold
Words ==
  { WordRecord(1, <<"STORM">>, 96, 10, 20, 30, 8),
    WordRecord(1, <<WS, "DRAIN">>, 31, 45, 18, 25, 12),
    WordRecord(2, <<"INLET">>, 57, 5, 60, 20, 0),
    WordRecord(2, <<WS>>, 95, 0, 0, 100, 100),
    WordRecord(3, <<"RIM">>, 30, 70, 70, 9, 9) }

\* the number of rows read so far
RowsRead == Sum([p \in 1..Len(page_data) |-> Len(page_data[p])])

\* the dicts image_to_data may return for the next page
PageData == SeqsUpTo(Words, MaxWords - RowsRead)

\* an exception inside the try block: `except Exception` returns []
OcrFails(page) ==
  /\ returned' = <<>>
  /\ failed_page' = page
  /\ xpc' = "returned"

\* a caller enters extract_text_with_ocr_blocks(pdf_data): convert_from_bytes
\* yields the page images (none: the loop body never runs and [] is
\* returned), or raises
ExtractStart ==
  /\ xpc = "idle"
  /\ \/ /\ xpc' = "loop"
        /\ UNCHANGED <<returned, failed_page>>
     \/ /\ xpc' = "returned"
        /\ returned' = ocr_results
        /\ UNCHANGED failed_page
     \/ OcrFails(1)
  /\ UNCHANGED <<page_num, page_data, ocr_results>>
  /\ UNCHANGED besideExtraction

\* one pass of `for page_num, image in enumerate(images, 1)`: image_to_data
\* returns the rows of the page, which are grouped and appended, or raises;
\* after the last image the list is returned
ReadPage ==
  /\ xpc = "loop"
  /\ page_num < MaxPages
  /\ \/ \E data \in PageData, last \in BOOLEAN :
          /\ page_num' = page_num + 1
          /\ page_data' = Append(page_data, data)
          /\ ocr_results' = ocr_results \o PageBlocks(data, page_num + 1)
          /\ IF last \/ page_num + 1 = MaxPages
             THEN /\ returned' = ocr_results'
                  /\ xpc' = "returned"
             ELSE UNCHANGED <<xpc, returned>>
          /\ UNCHANGED failed_page
     \/ /\ OcrFails(page_num + 1)
        /\ UNCHANGED <<page_num, page_data, ocr_results>>
  /\ UNCHANGED besideExtraction

\* the caller has the list; the next extraction may start
ExtractDone ==
  /\ xpc = "returned"
  /\ xpc' = "idle"
  /\ page_num' = 0
  /\ page_data' = <<>>
  /\ ocr_results' = <<>>
  /\ returned' = <<>>
  /\ failed_page' = 0
  /\ UNCHANGED besideExtraction

InitOcr ==
  /\ binding = "udochat"
  /\ registry = {StormwaterName}
  /\ NoSubmission
  /\ NoExtraction
  /\ NoApiCall
  /\ NoRequests({})
  /\ NoLogin
  /\ NoFormatting
  /\ NoChat({})

NextOcr ==
  \/ ExtractStart
  \/ ReadPage
  \/ ExtractDone

SpecOcr == InitOcr /\ [][NextOcr]_vars

----------------------------------------------------------------------------
(* udochat: create_flask_response, send_to_responses_api,
   convert_pdf_to_high_res_image *)

\* file_data arguments: None, or a bytes / memoryview object holding nothing,
\* a renderable PDF, an encrypted PDF or a damaged one
FileData ==
  {NoFile} \cup
  [type : {"bytes", "memoryview"}, content : {"", "pdf", "encrypted", "corrupt"}]

\* the bytes of a file in a format
Bytes(format, content) == [format |-> format, content |-> content]

\* convert_pdf_to_high_res_image(pdf_bytes): the PNG of the first page; the
\* original bytes when the document needs a password or anything raises
ConvertPdfToHighResImage(pdf_bytes) ==
  IF pdf_bytes.content = "pdf" THEN Bytes("png", pdf_bytes.content) ELSE pdf_bytes

TextPart == [type |-> "input_text", data |-> Bytes("text", "")]

\* {"type": "input_image", "image_url": f"data:image/png;base64,{b64_image}"}
ImagePart(image_data) == [type |-> "input_image", data |-> image_data]

\* what client.responses.create gives back as output_text
OutputTexts == { <<"1. Issue Category: Missing Label">>, <<LB, "\"comments\":", LK, RK, RB>> }

\* the dicts send_to_responses_api returns
ApiSuccess(text) ==
  [status |-> "success", response |-> text, prompt_id |-> prompt_id,
   conversation_id |-> conversation_id]

ApiError(exc) ==
  [status |-> "error", response |-> <<"Error: ", exc>>, prompt_id |-> prompt_id,
   conversation_id |-> conversation_id]

\* a caller enters create_flask_response(message, prompt_id, conversation_id,
\* file_data, filename): OpenAIResponses() is built (the client constructor
\* raises without an API key), then the `if not prompt_id` test
CreateFlaskResponse ==
  /\ vpc = "idle"
  /\ \E m \in {<<"Hello">>, <<>>}, p \in {<<>>, <<"pmpt_1">>}, c \in {<<>>, <<"conv_1">>},
        f \in FileData, n \in {<<>>, <<"plan.pdf">>}, has_key \in BOOLEAN :
       /\ chat_message' = m
       /\ prompt_id' = p
       /\ conversation_id' = c
       /\ file_data' = f
       /\ filename' = n
       /\ IF ~has_key THEN
            /\ api_result' = [NoApiResult EXCEPT !.status = "raised",
                                                !.response = <<"OpenAIError">>]
            /\ vpc' = "returned"
          ELSE IF p = <<>> THEN
            /\ api_result' = [NoApiResult EXCEPT !.status = "error",
                                !.response = <<"Error: prompt_id is required">>]
            /\ vpc' = "returned"
          ELSE
            /\ vpc' = "send"
            /\ UNCHANGED api_result
  /\ UNCHANGED <<user_content, dispatched>>
  /\ UNCHANGED besideVision

\* send_to_responses_api up to the API call: user_content, and the image part
\* when file_data and filename are given (bytes has no tobytes(): the
\* AttributeError goes to the except clause)
BuildRequest ==
  /\ vpc = "send"
  /\ IF file_data.content # "" /\ filename # <<>> THEN
       IF file_data.type = "bytes" THEN
         /\ user_content' = <<TextPart>>
         /\ api_result' = ApiError("AttributeError")
         /\ vpc' = "returned"
       ELSE
         /\ user_content' =
              <<TextPart, ImagePart(ConvertPdfToHighResImage(Bytes("pdf", file_data.content)))>>
         /\ vpc' = "call"
         /\ UNCHANGED api_result
     ELSE
       /\ user_content' = <<TextPart>>
       /\ vpc' = "call"
       /\ UNCHANGED api_result
  /\ UNCHANGED <<chat_message, prompt_id, conversation_id, file_data, filename, dispatched>>
  /\ UNCHANGED besideVision

\* client.responses.create(...) returns or raises; create_flask_response
\* copies the dict it gets
CallApi ==
  /\ vpc = "call"
  /\ dispatched' = Append(dispatched, user_content)
  /\ \/ \E text \in OutputTexts : api_result' = ApiSuccess(text)
     \/ \E exc \in {"ConnectionError", "RuntimeError"} : api_result' = ApiError(exc)
  /\ vpc' = "returned"
  /\ UNCHANGED <<chat_message, prompt_id, conversation_id, file_data, filename,
                 user_content>>
  /\ UNCHANGED besideVision

\* the caller has the dict; the next call may start
ApiReturn ==
  /\ vpc = "returned"
  /\ vpc' = "idle"
  /\ chat_message' = <<>>
  /\ prompt_id' = <<>>
  /\ conversation_id' = <<>>
  /\ file_data' = NoFile
  /\ filename' = <<>>
  /\ user_content' = <<>>
  /\ dispatched' = <<>>
  /\ api_result' = NoApiResult
  /\ UNCHANGED besideVision

InitVision ==
  /\ binding = "udochat"
  /\ registry = {StormwaterName}
  /\ NoSubmission
  /\ NoExtraction
  /\ NoApiCall
  /\ NoRequests({})
  /\ NoLogin
  /\ NoFormatting
  /\ NoChat({})

NextVision ==
  \/ CreateFlaskResponse
  \/ BuildRequest
  \/ CallApi
  \/ ApiReturn

SpecVision == InitVision /\ [][NextVision]_vars

----------------------------------------------------------------------------
(* The submit-plan handlers: api/routers/reviewrooms.py (FastAPI, SQLAlchemy)
   and app.py (Flask, SQL) *)

\* comments_data values of successful submissions
CommentsX ==
  JsonLoads(<<LB, "\"comments\":", LK>> \o CommentTokens("\"x\"", "\"info\"", "\"general\"")
            \o <<RK, RB>>).val
CommentsY ==
  JsonLoads(<<LB, "\"comments\":", LK>> \o CommentTokens("\"y\"", "\"urgent\"", "\"building\"")
            \o <<RK, RB>>).val

\* the dicts the submission functions return for a reviewer name
SubmissionResults(name) ==
  { [NoResult EXCEPT !.status = "success", !.has_comments_data = TRUE,
                     !.comments_data = cd, !.reviewer_name = name] :
      cd \in {CommentsX, CommentsY} }
  \cup { ErrorResult(<<"Reviewer '">> \o name \o <<"' not found in configuration">>, <<>>) }
  \cup { ErrorResult(<<"Failed to get response from ">> \o name, <<"Error: ", exc>>) :
           exc \in {"ConnectionError"} }
  \cup { ErrorResult(<<"Failed to process plan with ">> \o name, <<exc>>) :
           exc \in {"TypeError"} }

\* the answer of a handler to an error result
ErrorResponse(via, res) ==
  IF via = "flask"
  THEN [NoResponse EXCEPT !.code = 500, !.error = res.error, !.details = res.details]
  ELSE [NoResponse EXCEPT !.code = 500, !.error = res.error]

RefusedResponse(code, error) == [NoResponse EXCEPT !.code = code, !.error = error]

\* the review_comments the commit stores, appending to the comments in place
Stored_Merged(r, room) ==
  IF room.review_comments = NoValue THEN r.result.comments_data
  ELSE Obj(<<Mem(<<"comments">>,
                 Arr(Get(room.review_comments, <<"comments">>).items
                     \o Get(r.result.comments_data, <<"comments">>).items))>>)

\* the review_comments the commit stores.  SQL: SET review_comments = %s.
\* SQLAlchemy: the flush writes the columns whose value differs from the one
\* the session loaded; an assignment of an equal value writes nothing
Stored(r, room) ==
  IF r.via = "flask" \/ r.result.comments_data # r.loaded
  THEN r.result.comments_data
  ELSE room.review_comments

\* a test that takes every result for a success
IsSuccess_Always(res) == TRUE

\* result.get('status') == 'success'
IsSuccess(res) == res.status = "success"

\* the handler is entered and queries the room of the caller
ReadRoom(w) ==
  /\ req[w].pc = "idle"
  /\ \E via \in {"fastapi", "flask"}, user_id \in UserIds, id \in RoomIds,
        name \in {StormwaterName, BuildingName} :
       LET r == [NoRequest EXCEPT !.via = via, !.user_id = user_id,
                                  !.review_room_id = id, !.reviewer_name = name]
           room == rooms[id]
       IN req' = [req EXCEPT ![w] =
            IF ~(room.user_id = user_id /\ room.is_active) THEN
              [r EXCEPT !.pc = "responded",
                        !.response = RefusedResponse(404, <<"Review room not found">>)]
            ELSE IF ~room.has_pdf THEN
              [r EXCEPT !.pc = "responded",
                        !.response = RefusedResponse(404, <<"No PDF found in this review room">>)]
            ELSE [r EXCEPT !.pc = "loaded", !.loaded = room.review_comments]]
  /\ UNCHANGED <<workers, rooms, clock, last_commit>>
  /\ UNCHANGED besideSubmitting

\* result = planreview.submit_plan_to_stormwater_reviewer(...) or
\* planreview.submit_plan_to_reviewer(...)
Review(w) ==
  /\ req[w].pc = "loaded"
  /\ \E res \in SubmissionResults(req[w].reviewer_name) :
       req' = [req EXCEPT ![w].pc = "reviewed", ![w].result = res]
  /\ UNCHANGED <<workers, rooms, clock, last_commit>>
  /\ UNCHANGED besideSubmitting

\* from `if result.get('status') == 'success'` to the answer: the comments are
\* stored and committed (the commit may fail), or the error is answered
Persist(w) ==
  /\ req[w].pc = "reviewed"
  /\ LET r == req[w]
         id == r.review_room_id
     IN IF IsSuccess(r.result) THEN
          /\ clock < MaxCommits
          /\ \/ /\ rooms' = [rooms EXCEPT ![id].review_comments = Stored(r, rooms[id]),
                                          ![id].last_message_at = clock + 1,
                                          ![id].updated_at = clock + 1]
                /\ clock' = clock + 1
                /\ last_commit' = [slot |-> w, comments_data |-> r.result.comments_data]
                /\ req' = [req EXCEPT ![w].pc = "responded",
                                      ![w].response = [NoResponse EXCEPT !.code = 200,
                                         !.review_comments = r.result.comments_data]]
             \/ /\ req' = [req EXCEPT ![w].pc = "responded",
                                      ![w].response = RefusedResponse(500,
                                         <<"Failed to submit plan for review">>)]
                /\ UNCHANGED <<rooms, clock, last_commit>>
        ELSE
          /\ req' = [req EXCEPT ![w].pc = "responded",
                                ![w].response = ErrorResponse(r.via, r.result)]
          /\ UNCHANGED <<rooms, clock, last_commit>>
  /\ UNCHANGED workers
  /\ UNCHANGED besideSubmitting

\* the answer has gone out; the slot serves the next request
Finish(w) ==
  /\ req[w].pc = "responded"
  /\ req' = [req EXCEPT ![w] = NoRequest]
  /\ UNCHANGED <<workers, rooms, clock, last_commit>>
  /\ UNCHANGED besideSubmitting

\* one request at a time
InitRooms ==
  /\ binding = "substitute"
  /\ registry = {StormwaterName, BuildingName, PlanTwoName}
  /\ NoSubmission
  /\ NoExtraction
  /\ NoApiCall
  /\ NoRequests({1})
  /\ NoLogin
  /\ NoFormatting
  /\ NoChat({})

\* two requests at a time
InitRace ==
  /\ binding = "substitute"
  /\ registry = {StormwaterName, BuildingName, PlanTwoName}
  /\ NoSubmission
  /\ NoExtraction
  /\ NoApiCall
  /\ NoRequests(Slots)
  /\ NoLogin
  /\ NoFormatting
  /\ NoChat({})

NextRooms ==
  \/ \E w \in workers : ReadRoom(w)
  \/ \E w \in workers : Review(w)
  \/ \E w \in workers : Persist(w)
  \/ \E w \in workers : Finish(w)

SpecRooms == InitRooms /\ [][NextRooms]_vars

SpecRace == InitRace /\ [][NextRooms]_vars

----------------------------------------------------------------------------
(* Login: POST /api/login *)

Usernames == {KnownUser, <<WS>> \o KnownUser, <<"bob">>, <<WS>>}
Passwords == {"", KnownPassword, "hunter2"}

\* no lockout test at all
Locked_Never(login_attempts) == FALSE

\* a lockout test that lets the fifth failure through
Locked_Above(login_attempts) == login_attempts > MAX_LOGIN_ATTEMPTS

\* login_attempts >= MAX_LOGIN_ATTEMPTS
Locked(login_attempts) == login_attempts >= MAX_LOGIN_ATTEMPTS

\* check_password_hash(user.password_hash, password)
CheckPasswordHash(row, pw) == row.password = pw

\* raise HTTPException(status_code=code) / return Token(...)
Answer(code) ==
  /\ status_code' = code
  /\ lpc' = "answered"

\* the request arrives; username is stripped and both fields must be non-empty
LoginRequest ==
  /\ lpc = "idle"
  /\ Len(commits) < MaxLogins
  /\ \E u \in Usernames, pw \in Passwords :
       /\ username' = Strip(u)
       /\ password' = pw
       /\ IF Strip(u) = <<>> \/ pw = ""
          THEN Answer(400)
          ELSE /\ lpc' = "validated"
               /\ status_code' = 0
  /\ UNCHANGED <<userdata, user, commits>>
  /\ UNCHANGED besideAuthenticating

\* the row is read under its lock; an unknown user and a locked account are refused
LoginQuery ==
  /\ lpc = "validated"
  /\ IF username \notin DOMAIN userdata
     THEN /\ user' = NoUser
          /\ Answer(401)
     ELSE /\ user' = [found |-> TRUE, login_attempts |-> userdata[username].login_attempts]
          /\ IF Locked(userdata[username].login_attempts)
             THEN Answer(423)
             ELSE /\ lpc' = "loaded"
                  /\ UNCHANGED status_code
  /\ UNCHANGED <<userdata, username, password, commits>>
  /\ UNCHANGED besideAuthenticating

\* the password is verified and the count committed: 0 after a success, one more
\* after a failure; a commit that raises is rolled back and answered 500
LoginVerify ==
  /\ lpc = "loaded"
  /\ \E committed \in BOOLEAN :
       LET accepted == CheckPasswordHash(userdata[username], password)
           attempts == IF accepted THEN 0 ELSE user.login_attempts + 1
           code     == IF accepted THEN 200
                       ELSE IF Locked(attempts) THEN 423 ELSE 401
       IN  IF committed
           THEN /\ userdata' = [userdata EXCEPT ![username].login_attempts = attempts]
                /\ commits' = Append(commits, [ok |-> accepted, code |-> code])
                /\ Answer(code)
           ELSE /\ Answer(500)
                /\ UNCHANGED <<userdata, commits>>
  /\ UNCHANGED <<username, password, user>>
  /\ UNCHANGED besideAuthenticating

\* the answer has gone out
LoginReturn ==
  /\ lpc = "answered"
  /\ lpc' = "idle"
  /\ username' = <<>>
  /\ password' = ""
  /\ user' = NoUser
  /\ status_code' = 0
  /\ UNCHANGED <<userdata, commits>>
  /\ UNCHANGED besideAuthenticating

InitLogin ==
  /\ binding = "udochat"
  /\ registry = {StormwaterName}
  /\ NoSubmission
  /\ NoExtraction
  /\ NoApiCall
  /\ NoRequests({})
  /\ NoLogin
  /\ NoFormatting
  /\ NoChat({})

NextLogin ==
  \/ LoginRequest
  \/ LoginQuery
  \/ LoginVerify
  \/ LoginReturn

SpecLogin == InitLogin /\ [][NextLogin]_vars

----------------------------------------------------------------------------
(* Chat: POST /api/chat, and the read requests *)

\* the largest number of committed saves of a conversation
MaxSaves == 3

\* request.message of the request a slot serves (pydantic admits "")
ChatMessages(w) == {<<>>, <<"message ", ToString(w)>>}

\* what create_flask_response returns to the chat handler
ChatResults ==
  { [status |-> "success", response |-> <<"reply">>],
    [status |-> "error", response |-> <<"Error: ", "upstream">>] }

\* the two messages with the assistant's first
NewMessages_AssistantFirst(user_message, ai_response) ==
  << [role |-> "assistant", content |-> ai_response],
     [role |-> "user", content |-> user_message] >>

\* the two messages a save writes (their timestamps are left out)
NewMessages(user_message, ai_response) ==
  << [role |-> "user", content |-> user_message],
     [role |-> "assistant", content |-> ai_response] >>

\* a filter that does not look at the owner
Owned_ByAnyone(table, id, user_id) == id \in DOMAIN table

\* filter(<table>.<id> == id, <table>.user_id == user_id).first() is a row
Owned(table, id, user_id) == id \in DOMAIN table /\ table[id].user_id = user_id

\* the handler answers and the request is over
ChatAnswer(w, code, st, id) ==
  chat' = [chat EXCEPT ![w].pc = "answered",
                       ![w].answer = [code |-> code, status |-> st,
                                      conversation_id |-> id]]

\* the save returned after its commit, and the handler answers
SavedAnswer(w, id) ==
  chat' = [chat EXCEPT ![w].pc = "answered", ![w].saved = TRUE,
                       ![w].answer = [code |-> 200, status |-> "success",
                                      conversation_id |-> id]]

\* the number of messages stored, and of requests under way
Stored_Messages ==
  Sum([i \in 1..Len(conversations) |-> Len(conversations[i].conversation_history)])
Underway == Cardinality({v \in chatters : chat[v].pc # "idle"})

\* a chat request arrives; `if not request.message` answers 400
ChatRequest(w) ==
  /\ chat[w].pc = "idle"
  /\ view = NoView
  /\ Stored_Messages + 2 * Underway < 2 * MaxSaves
  /\ \E via \in {"fastapi", "flask"}, user_id \in UserIds, msg \in ChatMessages(w),
        id \in 0..MaxSaves :
       LET r == [NoChatRequest EXCEPT !.via = via, !.user_id = user_id, !.message = msg,
                                      !.conversation_id = id]
       IN  chat' = [chat EXCEPT ![w] =
             IF msg = <<>>
             THEN [r EXCEPT !.pc = "answered", !.answer = [NoChatAnswer EXCEPT !.code = 400]]
             ELSE [r EXCEPT !.pc = "calling"]]
  /\ UNCHANGED <<chatters, conversations, view>>
  /\ UNCHANGED besideChatting

\* result = udochat.create_flask_response(...): a success goes on to the save,
\* an error result is answered as it is, an exception is answered 500
ChatCall(w) ==
  /\ chat[w].pc = "calling"
  /\ \/ \E res \in ChatResults :
          IF res.status = "success"
          THEN chat' = [chat EXCEPT ![w].pc = "saving", ![w].result = res]
          ELSE chat' = [chat EXCEPT ![w].pc = "answered", ![w].result = res,
                                    ![w].answer = [NoChatAnswer EXCEPT !.code = 200,
                                                                       !.status = "error"]]
     \/ ChatAnswer(w, 500, "", 0)
  /\ UNCHANGED <<chatters, conversations, view>>
  /\ UNCHANGED besideChatting

\* save_conversation_to_db up to the query.  app.py:338 enters
\* `with db_connection as cnx` on the function itself: that raises, the except
\* clause raises again on the unbound cnx, and chat answers 500
SaveQuery(w) ==
  /\ chat[w].pc = "saving"
  /\ IF chat[w].via = "flask" THEN ChatAnswer(w, 500, "", 0)
     ELSE IF /\ chat[w].conversation_id # 0
             /\ Owned(conversations, chat[w].conversation_id, chat[w].user_id)
     THEN chat' = [chat EXCEPT ![w].pc = "updating", ![w].found = TRUE,
                     ![w].current_history =
                        conversations[chat[w].conversation_id].conversation_history]
     ELSE chat' = [chat EXCEPT ![w].pc = "creating"]
  /\ UNCHANGED <<chatters, conversations, view>>
  /\ UNCHANGED besideChatting

\* save_conversation_to_db from the assignment to the return: the row gets
\* current_history + new_messages, or a new row is added; a commit that raises
\* is rolled back and the id of the request is returned; chat answers with the
\* returned id
SaveCommit(w) ==
  /\ chat[w].pc \in {"updating", "creating"}
  /\ LET r == chat[w]
         new_messages == NewMessages(r.message, r.result.response)
     IN  \/ /\ r.pc = "updating"
            /\ conversations' =
                 [conversations EXCEPT ![r.conversation_id].conversation_history =
                    r.current_history \o new_messages]
            /\ SavedAnswer(w, r.conversation_id)
         \/ /\ r.pc = "creating"
            /\ conversations' =
                 Append(conversations,
                        [user_id |-> r.user_id, conversation_history |-> new_messages,
                         is_active |-> TRUE])
            /\ SavedAnswer(w, Len(conversations) + 1)
         \/ /\ ChatAnswer(w, 200, "success", r.conversation_id)
            /\ UNCHANGED conversations
  /\ UNCHANGED <<chatters, view>>
  /\ UNCHANGED besideChatting

\* the answer has gone out; the slot serves the next request
ChatReturn(w) ==
  /\ chat[w].pc = "answered"
  /\ chat' = [chat EXCEPT ![w] = NoChatRequest]
  /\ UNCHANGED <<chatters, conversations, view>>
  /\ UNCHANGED besideChatting

\* the read handlers, by the name of what they return
ListKinds == {"reviewrooms", "conversations"}
RoomKinds == {"pdf", "pdf_info", "comments"}

\* the answer of a read handler to user_id: the lists hold the ids of the
\* caller's active rows; a handler that takes an id answers 404 unless the
\* query finds an active row of the caller with that id (and, for the PDF, a
\* PDF in it), and else returns fields of that row
ReadAnswer(kind, user_id, id) ==
  LET table == IF kind \in RoomKinds \cup {"reviewrooms"} THEN rooms ELSE conversations
      answer == [NoView EXCEPT !.kind = kind, !.user_id = user_id, !.id = id]
  IN  IF kind \in ListKinds
      THEN [answer EXCEPT !.code = 200,
                          !.ids = {i \in DOMAIN table :
                                     Owned(table, i, user_id) /\ table[i].is_active}]
      ELSE IF ~(Owned(table, id, user_id) /\ table[id].is_active)
      THEN [answer EXCEPT !.code = 404]
      ELSE IF kind \in {"pdf", "pdf_info"} /\ ~rooms[id].has_pdf
      THEN [answer EXCEPT !.code = 404]
      ELSE [answer EXCEPT !.code = 200,
                          !.shown = [table |-> IF kind \in RoomKinds THEN "reviewrooms"
                                               ELSE "conversations",
                                     id |-> id]]

\* a read request is answered while no chat request is under way
Read ==
  /\ view = NoView
  /\ \A w \in chatters : chat[w].pc = "idle"
  /\ \E user_id \in UserIds :
       \/ \E kind \in ListKinds : view' = ReadAnswer(kind, user_id, 0)
       \/ \E kind \in RoomKinds \cup {"conversation"}, id \in 1..MaxSaves :
            view' = ReadAnswer(kind, user_id, id)
  /\ UNCHANGED <<chatters, chat, conversations>>
  /\ UNCHANGED besideChatting

\* the answer of the read request has gone out
ReadReturn ==
  /\ view # NoView
  /\ view' = NoView
  /\ UNCHANGED <<chatters, chat, conversations>>
  /\ UNCHANGED besideChatting

\* one request at a time
InitChat ==
  /\ binding = "udochat"
  /\ registry = {StormwaterName}
  /\ NoSubmission
  /\ NoExtraction
  /\ NoApiCall
  /\ NoRequests({})
  /\ NoLogin
  /\ NoFormatting
  /\ NoChat({1})

\* two chat requests at a time
InitChatRace ==
  /\ binding = "udochat"
  /\ registry = {StormwaterName}
  /\ NoSubmission
  /\ NoExtraction
  /\ NoApiCall
  /\ NoRequests({})
  /\ NoLogin
  /\ NoFormatting
  /\ NoChat(Slots)

NextChat ==
  \/ \E w \in chatters : ChatRequest(w)
  \/ \E w \in chatters : ChatCall(w)
  \/ \E w \in chatters : SaveQuery(w)
  \/ \E w \in chatters : SaveCommit(w)
  \/ \E w \in chatters : ChatReturn(w)

NextService ==
  \/ NextChat
  \/ Read
  \/ ReadReturn

SpecChat == InitChat /\ [][NextService]_vars

SpecChatRace == InitChatRace /\ [][NextChat]_vars

----------------------------------------------------------------------------
(* Calls of format_ocr_for_prompt *)

\* the largest number of blocks of an argument
MaxBlocks == 3

\* blocks of two pages; three of page 1 share y, two of them share x as well
FormatBlocks ==
  { [text |-> <<"GENERAL", WS, "NOTES">>, page |-> 2, confidence |-> 90, block_id |-> 1,
     bbox |-> [x |-> 5, y |-> 10, width |-> 40, height |-> 8]],
    [text |-> <<"INLET">>, page |-> 1, confidence |-> 57, block_id |-> 1,
     bbox |-> [x |-> 30, y |-> 20, width |-> 12, height |-> 6]],
    [text |-> <<"RIM">>, page |-> 1, confidence |-> 63, block_id |-> 2,
     bbox |-> [x |-> 10, y |-> 20, width |-> 9, height |-> 6]],
    [text |-> <<"INV">>, page |-> 1, confidence |-> 63, block_id |-> 3,
     bbox |-> [x |-> 10, y |-> 20, width |-> 9, height |-> 6]],
    [text |-> <<"SCALE">>, page |-> 1, confidence |-> 88, block_id |-> 4,
     bbox |-> [x |-> 50, y |-> 5, width |-> 20, height |-> 6]] }

\* a caller passes a list of blocks and gets the string
FormatCall ==
  /\ fpc = "idle"
  /\ \E ocr_list \in SeqsUpTo(FormatBlocks, MaxBlocks) :
       /\ format_arg' = ocr_list
       /\ formatted_text' = FormatOcrForPrompt(ocr_list)
  /\ fpc' = "returned"
  /\ UNCHANGED besideFormatting

\* the caller has the string; the next call may start
FormatDone ==
  /\ fpc = "returned"
  /\ fpc' = "idle"
  /\ format_arg' = <<>>
  /\ formatted_text' = <<>>
  /\ UNCHANGED besideFormatting

InitFormat ==
  /\ binding = "udochat"
  /\ registry = {StormwaterName}
  /\ NoSubmission
  /\ NoExtraction
  /\ NoApiCall
  /\ NoRequests({})
  /\ NoLogin
  /\ NoFormatting
  /\ NoChat({})

NextFormat ==
  \/ FormatCall
  \/ FormatDone

SpecFormat == InitFormat /\ [][NextFormat]_vars

----------------------------------------------------------------------------
(* Vocabulary of the claims *)

\* the closed enums of the comment schema
Severities == {<<"info">>, <<"minor">>, <<"major">>, <<"blocking">>}
Categories == {<<"zoning">>, <<"utilities">>, <<"stormwater">>, <<"transportation">>,
               <<"fire">>, <<"landscape">>, <<"ada">>, <<"general">>}

\* the submission returned a success result
Succeeded == pc = "done" /\ result.status = "success"

\* d is a dict with a 'comments' list
HasCommentsList(d) ==
  /\ d.t = "obj"
  /\ HasKey(d, <<"comments">>)
  /\ Get(d, <<"comments">>).t = "arr"

\* the elements of that list
CommentsOf(d) == Get(d, <<"comments">>).items

\* c is a dict whose member k is the string txt
HasText(c, k, txt) == c.t = "obj" /\ HasKey(c, k) /\ Get(c, k) = Str(txt)

\* c has the fixed fields of the fallback comment and body txt
IsFallbackComment(c, txt) ==
  /\ HasText(c, <<"page_key">>, <<"Sheet 1">>)
  /\ HasKey(c, <<"region">>)
  /\ Get(c, <<"region">>) = Obj(<< Mem(<<"x">>, Num("0")), Mem(<<"y">>, Num("0")),
                                   Mem(<<"w">>, Num("100")), Mem(<<"h">>, Num("100")) >>)
  /\ HasText(c, <<"severity">>, <<"major">>)
  /\ HasText(c, <<"body">>, txt)

\* d holds exactly one comment, the fallback comment for txt
IsFallbackFor(d, txt) ==
  /\ HasCommentsList(d)
  /\ Len(CommentsOf(d)) = 1
  /\ IsFallbackComment(CommentsOf(d)[1], txt)

\* the text from the first '{' to the last '}' (<<>> when there is no such text)
BraceSpan(txt) ==
  IF Find(txt, LB) >= 0 /\ RFind(txt, RB) > Find(txt, LB)
  THEN SubSeq(txt, Find(txt, LB) + 1, RFind(txt, RB) + 1)
  ELSE <<>>

\* the trimmed text starts with '{'
StartsWithBrace(txt) == StartsWith(Strip(txt), LB)

\* txt without a trailing suffix segment
StripSuffix(txt, suffix) ==
  IF txt # <<>> /\ txt[Len(txt)] = suffix THEN SubSeq(txt, 1, Len(txt) - 1) ELSE txt

\* msg names the reviewer (letter case aside)
NamesReviewer(msg, name) ==
  \E i \in 1..Len(msg) :
    /\ i + Len(name) - 1 <= Len(msg)
    /\ Lower(SubSeq(msg, i, i + Len(name) - 1)) = Lower(name)

----------------------------------------------------------------------------
(* Claims *)

\* C1: every successful submission with a non-empty raw response returns a
\* comments_data holding a 'comments' list of at least one comment.
C1_AtLeastOneComment ==
  (Succeeded /\ result.raw_response # <<>>) =>
    /\ result.has_comments_data
    /\ HasCommentsList(result.comments_data)
    /\ Len(CommentsOf(result.comments_data)) >= 1

C3_EnumsClosed ==
  (Succeeded /\ HasCommentsList(result.comments_data)) =>
    \A i \in 1..Len(CommentsOf(result.comments_data)) :
      LET c == CommentsOf(result.comments_data)[i] IN
      /\ c.t = "obj"
      /\ HasKey(c, <<"severity">>) /\ Get(c, <<"severity">>).t = "str"
      /\ Get(c, <<"severity">>).s \in Severities
      /\ HasKey(c, <<"category">>) /\ Get(c, <<"category">>).t = "str"
      /\ Get(c, <<"category">>).s \in Categories

\* the JSON object step 1 or step 2 of the decoder obtains from txt
Obtained(txt) ==
  IF StartsWithBrace(txt) THEN JsonLoads(txt) ELSE JsonLoads(BraceSpan(txt))

\* C4: when the response parses to a JSON object without a 'comments' array,
\* the result is exactly one fallback comment.
C4_NoCommentsArrayFallsBack ==
  (/\ Succeeded
   /\ Obtained(result.raw_response).ok
   /\ ~HasCommentsList(Obtained(result.raw_response).val)) =>
    IsFallbackFor(result.comments_data, result.raw_response)

\* no JSON object can be parsed from txt: no '{', no '}' after the first '{',
\* or the candidate text is invalid JSON
NothingParses(txt) == ~Obtained(txt).ok

C6_TrailingSuffixOnly ==
  (Succeeded /\ branch = "Fallback") =>
    HasText(CommentsOf(result.comments_data)[1], <<"category">>,
            IF fn = "stormwater" THEN <<"stormwater">>
            ELSE StripSuffix(Lower(reviewer_name), " reviewer"))

\* txt is a clean JSON object
CleanJson(txt) == StartsWithBrace(txt) /\ JsonLoads(txt).ok

\* txt is prose around a JSON object: it does not begin with the object, and
\* the text from its first '{' to its last '}' parses
ProseAroundJson(txt) ==
  ~StartsWithBrace(txt) /\ BraceSpan(txt) # <<>> /\ JsonLoads(BraceSpan(txt)).ok

C9_UnknownReviewer ==
  (pc # "idle" /\ LookupName \notin registry) =>
    /\ \A i \in 1..Len(calls) : calls[i] = "registry"
    /\ (pc = "done" /\ raised = "") =>
         /\ calls = <<"registry">>
         /\ result.status = "error"
         /\ ~result.has_comments_data
         /\ NamesReviewer(result.error, LookupName)

\* submit_plan_to_reviewer ended for a name the registry does not hold
C9_Witness ==
  /\ pc = "done"
  /\ fn = "reviewer"
  /\ reviewer_name = UnknownName
  /\ raised = ""
  /\ result.status = "error"

\* C10: a failed AI call (raised, or non-success status) ends the submission
\* with status 'error', a message and no comments; no exception ever leaves
\* the submission function.
C10_FailuresBecomeErrors ==
  /\ escaped = ""
  /\ (pc = "done" /\ (raised # "" \/ upstream.status = "error")) =>
       /\ result.status = "error"
       /\ result.error # <<>>
       /\ ~result.has_comments_data
       /\ result.comments_data = NoValue

\* the AI call raised inside a submission that had passed lookup and OCR
C10_Witness ==
  /\ pc = "done"
  /\ calls = <<"registry", "ocr", "ai">>
  /\ raised \in {"ConnectionError", "RuntimeError", "TypeError"}
  /\ result.status = "error"

\* the well-formed answer with two comments
TwoCommentsResponse ==
  <<LB, "\"comments\":", LK>>
  \o CommentTokens("\"x\"", "\"info\"", "\"general\"") \o <<CM>>
  \o CommentTokens("\"y\"", "\"urgent\"", "\"building\"")
  \o <<RK, RB>>

\* nothing around this submission went wrong: the registry was readable, no
\* collaborator failed, and the AI gave no answer other than the two comments
ScenarioTwoComments ==
  /\ raised \notin {"FileNotFoundError", "ConnectionError", "RuntimeError"}
  /\ upstream.status # "error"
  /\ upstream.status = "success" => upstream.response = TwoCommentsResponse

\* C11: a submission to a registered reviewer, made while the external AI
\* answers the well-formed JSON with two comments, ends with status 'success'
\* and exactly those two comments: the call into create_flask_response goes
\* through to the AI and the answer is decoded.
C11_TwoCommentsSucceed ==
  (pc = "done" /\ LookupName \in registry /\ ScenarioTwoComments) =>
    /\ result.status = "success"
    /\ HasCommentsList(result.comments_data)
    /\ CommentsOf(result.comments_data) = CommentsOf(JsonLoads(TwoCommentsResponse).val)

\* part occurs in txt
Contains(txt, part) ==
  \E i \in 1..(Len(txt) + 1) :
    /\ i + Len(part) - 1 <= Len(txt)
    /\ SubSeq(txt, i, i + Len(part) - 1) = part

\* create_flask_response has been called by the running submission
Dispatched == pc \in {"decode", "done"} /\ calls = <<"registry", "ocr", "ai">>

\* C13: for every registered reviewer, the message dispatched to the AI
\* collaborator contains the OCR dump format_ocr_for_prompt makes of the
\* extracted blocks, and the plan title.
C13_RequestCarriesOcrDump ==
  Dispatched =>
    /\ Contains(message, FormatOcrForPrompt(ocr_data))
    /\ Contains(message, title)

\* the extraction returned after the backend raised on a page
FailedOnPage == xpc = "returned" /\ failed_page # 0

\* the extraction returned with every page read
ReadEveryPage == xpc = "returned" /\ failed_page = 0

\* the items of q as a set
Range(q) == {q[i] : i \in 1..Len(q)}

\* C15: when the OCR backend fails on one page, the blocks extracted from the
\* other pages are still returned.
C15_OtherPagesKept ==
  FailedOnPage =>
    \A p \in 1..Len(page_data) : Range(PageBlocks(page_data[p], p)) \subseteq Range(returned)

\* the (page, block_id) groups that keep at least one word after the filter
Groups ==
  { g \in (1..Len(page_data)) \X {w.block_num : w \in Words} :
      \E i \in 1..Len(page_data[g[1]]) :
        page_data[g[1]][i].block_num = g[2] /\ Survives(page_data[g[1]][i]) }

\* C16: the number of emitted blocks equals the number of (page, block_id)
\* groups keeping at least one word; every group gives one block with text,
\* none is split, merged across pages or empty.
C16_OneBlockPerGroup ==
  ReadEveryPage =>
    /\ Len(returned) = Cardinality(Groups)
    /\ {<<returned[k].page, returned[k].block_id>> : k \in 1..Len(returned)} = Groups
    /\ \A k \in 1..Len(returned) : returned[k].text # <<>>

\* two pages were read, one of them with surviving words of two blocks and a
\* dropped row
C16_Witness ==
  /\ ReadEveryPage
  /\ Len(page_data) = 2
  /\ Len(returned) = 3
  /\ \E p \in 1..2 : Len(PageBlocks(page_data[p], p)) = 2
  /\ \E p \in 1..2 : \E i \in 1..Len(page_data[p]) : ~Survives(page_data[p][i])

\* the surviving rows that make up block b
Constituents(b) ==
  { w \in Range(page_data[b.page]) : Survives(w) /\ w.block_num = b.block_id }

\* C17: the bounding box of every emitted block encloses the box of each of its
\* words, and its width and height are not negative.
C17_BBoxEncloses ==
  ReadEveryPage =>
    \A k \in 1..Len(returned) :
      LET bbox == returned[k].bbox IN
      /\ bbox.width >= 0
      /\ bbox.height >= 0
      /\ \A w \in Constituents(returned[k]) :
           /\ bbox.x <= w.left
           /\ bbox.y <= w.top
           /\ bbox.x + bbox.width >= w.left + w.width
           /\ bbox.y + bbox.height >= w.top + w.height

\* a block of two words was emitted whose box is wider than either word
C17_Witness ==
  /\ ReadEveryPage
  /\ \E k \in 1..Len(returned) :
       /\ Cardinality(Constituents(returned[k])) = 2
       /\ \A w \in Constituents(returned[k]) : returned[k].bbox.width > w.width

\* the request for a file was built
FileRequestBuilt ==
  /\ vpc \in {"call", "returned"}
  /\ user_content # <<>>
  /\ file_data.type = "memoryview"
  /\ file_data.content # ""
  /\ filename # <<>>

\* C14: for an encrypted or otherwise unrenderable PDF the request goes out
\* without an image input, and no image part is ever built from bytes that
\* are not an image.
C14_NoImageFromNonImageBytes ==
  /\ \A i \in 1..Len(user_content) :
       user_content[i].type = "input_image" => user_content[i].data.format = "png"
  /\ (FileRequestBuilt /\ file_data.content \in {"encrypted", "corrupt"}) =>
       \A i \in 1..Len(user_content) : user_content[i].type # "input_image"

\* txt carries the text of an exception
ExposesException(txt) == \E i \in 1..Len(txt) : txt[i] \in ExceptionClasses

\* C12: no answer handed to a caller carries exception text: the message and
\* the details of every error answer are fixed strings (with the reviewer name
\* at most).
C12_NoExceptionTextOutward ==
  \A w \in Slots :
    /\ ~ExposesException(req[w].response.error)
    /\ ~ExposesException(req[w].response.details)

\* the room the latest committed submission wrote to
LastWritten(id) == clock > 0 /\ rooms[id].updated_at = clock

\* C18: after any sequence of successful submissions to a room, the stored
\* review_comments are the whole comments_data of the last one, with nothing
\* kept from earlier ones.
C18_LastSubmissionWins ==
  \A id \in RoomIds :
    LastWritten(id) => rooms[id].review_comments = last_commit.comments_data

\* a second successful submission replaced the different comments of the first
C18_Witness ==
  /\ clock >= 2
  /\ req[1].pc = "responded"
  /\ req[1].response.code = 200
  /\ req[1].loaded = CommentsX
  /\ req[1].result.comments_data = CommentsY
  /\ rooms[1].review_comments = CommentsY

\* both slots have answered a successful submission to room 1
BothCommitted ==
  \A w \in Slots :
    /\ req[w].pc = "responded"
    /\ req[w].response.code = 200
    /\ req[w].review_room_id = 1

\* C19: when two submissions to one room run concurrently, the stored
\* review_comments afterwards are the whole comments_data of exactly one of
\* them, the one that committed last, under every interleaving.
C19_LastCommitterWins ==
  BothCommitted =>
    /\ rooms[1].review_comments \in {req[w].result.comments_data : w \in Slots}
    /\ rooms[1].review_comments = req[last_commit.slot].result.comments_data

\* the failed logins committed since the latest accepted one
RECURSIVE FailuresSince(_)
FailuresSince(log) ==
  IF log = <<>> \/ log[Len(log)].ok THEN 0
  ELSE 1 + FailuresSince(SubSeq(log, 1, Len(log) - 1))

\* C20: the stored count is the number of failed logins since the last accepted
\* one; a failed login is answered 401 while that number stays below 5 and 423
\* when it reaches 5; an accepted login is answered 200 and puts the count back
\* to 0, so the failures after it are counted from zero again
C20_LockoutCounts ==
  /\ userdata[KnownUser].login_attempts = FailuresSince(commits)
  /\ \A i \in 1..Len(commits) :
       LET n == FailuresSince(SubSeq(commits, 1, i))
       IN  IF commits[i].ok
           THEN commits[i].code = 200 /\ n = 0
           ELSE /\ n <= 5
                /\ commits[i].code = (IF n < 5 THEN 401 ELSE 423)

\* a failure, an accepted login, then five failures: the fifth one locks
C20_Witness ==
  /\ Len(commits) = 7
  /\ ~commits[1].ok /\ commits[1].code = 401
  /\ commits[2].ok
  /\ \A i \in 3..6 : commits[i].code = 401
  /\ commits[7].code = 423
  /\ userdata[KnownUser].login_attempts = 5

\* the word has visible text and a confidence above 30
Reliable(w) == w.conf >= 31 /\ \E i \in 1..Len(w.text) : w.text[i] # WS

\* the reliable rows of page p that carry block number n, in engine order
ReliableRows(p, n) ==
  LET Mine(w) == w.block_num = n /\ Reliable(w) IN SelectSeq(page_data[p], Mine)

\* txt without the blanks around it
Trimmed(txt) ==
  LET I == {i \in 1..Len(txt) : txt[i] # WS}
  IN  IF I = {} THEN <<>> ELSE SubSeq(txt, Min(I), Max(I))

\* C24: a word is discarded exactly when its trimmed text is empty or its
\* confidence is at most 30: every reliable word belongs to an emitted block, and
\* the text, bounding box and confidence of every block are those of its
\* reliable words alone.
C24_FilterExact ==
  ReadEveryPage =>
    /\ \A p \in 1..Len(page_data) : \A i \in 1..Len(page_data[p]) :
         Reliable(page_data[p][i]) =>
           \E k \in 1..Len(returned) :
             returned[k].page = p /\ returned[k].block_id = page_data[p][i].block_num
    /\ \A k \in 1..Len(returned) :
         LET b == returned[k]
             R == ReliableRows(b.page, b.block_id)
             I == 1..Len(R)
         IN  /\ R # <<>>
             /\ b.text = JoinSpace([i \in I |-> Trimmed(R[i].text)])
             /\ b.bbox.x = Min({R[i].left : i \in I})
             /\ b.bbox.y = Min({R[i].top : i \in I})
             /\ b.bbox.x + b.bbox.width = Max({R[i].left + R[i].width : i \in I})
             /\ b.bbox.y + b.bbox.height = Max({R[i].top + R[i].height : i \in I})
             /\ Len(R) * b.confidence <= Sum([i \in I |-> R[i].conf])
             /\ Len(R) * (b.confidence + 1) > Sum([i \in I |-> R[i].conf])

\* a page held a word of confidence 30, a word of confidence 31 and a blank
\* word of high confidence; only the word of confidence 31 was emitted
C24_Witness ==
  /\ ReadEveryPage
  /\ \E p \in 1..Len(page_data) :
       /\ \E i \in 1..Len(page_data[p]) :
            page_data[p][i].conf = 30 /\ Trimmed(page_data[p][i].text) # <<>>
       /\ \E i \in 1..Len(page_data[p]) :
            page_data[p][i].conf > 30 /\ Trimmed(page_data[p][i].text) = <<>>
       /\ \E i \in 1..Len(page_data[p]) : page_data[p][i].conf = 31
       /\ Len(PageBlocks(page_data[p], p)) = 1
  /\ \E k \in 1..Len(returned) : returned[k].confidence = 31

\* C25: the confidence of every block is the floor of the sum of the
\* confidences of its surviving words divided by their number, an integer
\* from 0 to 100.
C25_TruncatedMean ==
  ReadEveryPage =>
    \A k \in 1..Len(returned) :
      LET b == returned[k]
          R == ReliableRows(b.page, b.block_id)
          total == Sum([i \in 1..Len(R) |-> R[i].conf])
      IN  /\ b.confidence \in 0..100
          /\ Len(R) * b.confidence <= total
          /\ total < Len(R) * (b.confidence + 1)

\* a block of two words whose confidences have an odd sum: the half is cut off
C25_Witness ==
  /\ ReadEveryPage
  /\ \E k \in 1..Len(returned) :
       LET R == ReliableRows(returned[k].page, returned[k].block_id)
       IN  /\ Len(R) = 2
           /\ (R[1].conf + R[2].conf) % 2 = 1
           /\ 2 * returned[k].confidence = R[1].conf + R[2].conf - 1

\* C27: a submission that ends in error leaves the review room as it was: the
\* only step that changes the reviewrooms table is the commit of a submission
\* whose result is a success, and an error result is answered 500.
C27_ErrorLeavesRoom ==
  [][/\ rooms' # rooms =>
          \E w \in Slots :
            /\ req[w].pc = "reviewed"
            /\ req[w].result.status = "success"
            /\ req'[w].response.code = 200
     /\ \A w \in Slots :
          (req[w].pc = "reviewed" /\ req[w].result.status = "error" /\ req'[w] # req[w]) =>
            /\ req'[w].response.code = 500
            /\ rooms' = rooms
            /\ last_commit' = last_commit]_vars

\* a failed submission was answered while the room still holds the comments
\* and the time of an earlier successful one
C27_Witness ==
  /\ req[1].pc = "responded"
  /\ req[1].result.status = "error"
  /\ req[1].response.code = 500
  /\ req[1].loaded = CommentsX
  /\ rooms[1].review_comments = CommentsX
  /\ rooms[1].updated_at = clock
  /\ clock > 0

\* C28: a locked account stays locked: login_attempts never exceeds 5; while it
\* equals 5 every login that names the user and carries a password is answered
\* 423, the correct password included; and no step lowers a count of 5.
C28_LockedStaysLocked ==
  /\ [](userdata[KnownUser].login_attempts <= 5)
  /\ []((/\ userdata[KnownUser].login_attempts = 5
         /\ lpc = "answered"
         /\ username = KnownUser
         /\ password # "") => status_code = 423)
  /\ [][userdata[KnownUser].login_attempts = 5 =>
          userdata'[KnownUser].login_attempts = 5]_vars

\* the locked account was offered the correct password and refused
C28_Witness ==
  /\ userdata[KnownUser].login_attempts = 5
  /\ lpc = "answered"
  /\ username = KnownUser
  /\ password = KnownPassword
  /\ user.found
  /\ status_code = 423

\* the number of calls of the AI collaborator this submission has made
AiCalls == Cardinality({i \in 1..Len(calls) : calls[i] = "ai"})

\* the running function has its return value
Returned == pc = "done" /\ result.status \in {"success", "error"}

NumberOf(tok) == CHOOSE n \in 0..100 : ToString(n) = tok

\* the positions of the token tok in the formatted text, ascending
PositionsOf(tok) ==
  Ascending({i \in 1..Len(formatted_text) : formatted_text[i] = tok})

\* the page headers of the formatted text in order: page number and block count
PageHeaders ==
  LET at == PositionsOf("PAGE ")
  IN  [k \in 1..Len(at) |->
         [page  |-> NumberOf(formatted_text[at[k] + 1]),
          count |-> NumberOf(formatted_text[at[k] + 3]),
          pos   |-> at[k]]]

\* what the formatted text shows of one block
Shown(page, x, y, width, height, confidence, text) ==
  [page |-> page, x |-> x, y |-> y, width |-> width, height |-> height,
   confidence |-> confidence, text |-> text]

\* the block entries of the formatted text in order, each with its number and
\* the page of the header above it
BlockEntries ==
  LET at == PositionsOf("Block ")
      out == formatted_text
      PageAt(i) ==
        LET above == {k \in 1..Len(PageHeaders) : PageHeaders[k].pos < i}
        IN  PageHeaders[Max(above)].page
      Closing(i) == Min({j \in (i + 15)..Len(out) : out[j] = "\""})
  IN  [k \in 1..Len(at) |->
         LET i == at[k] IN
         [no |-> NumberOf(out[i + 1]),
          shown |-> Shown(PageAt(i), NumberOf(out[i + 3]), NumberOf(out[i + 5]),
                          NumberOf(out[i + 7]), NumberOf(out[i + 9]),
                          NumberOf(out[i + 11]),
                          SubSeq(out, i + 15, Closing(i) - 1))]]

\* what the formatted text should show of the blocks of the argument, in
\* input order
ShownOfInput ==
  [i \in 1..Len(format_arg) |->
     LET b == format_arg[i]
     IN  Shown(b.page, b.bbox.x, b.bbox.y, b.bbox.width, b.bbox.height,
               b.confidence, b.text)]

\* C26: pages are listed in ascending page number; within a page the blocks
\* are listed by y ascending, then x ascending, blocks of equal (y, x) in input
\* order; each page header states the number of blocks of the page; every
\* input block is listed exactly once; the text is a function of the input.
C26_ReadingOrder ==
  (fpc = "returned" /\ format_arg # <<>>) =>
    LET H == PageHeaders
        E == BlockEntries
        In == ShownOfInput
        SameKey(a, b) == a.page = b.page /\ a.y = b.y /\ a.x = b.x
    IN  /\ \A k \in 1..(Len(H) - 1) : H[k].page < H[k + 1].page
        /\ {H[k].page : k \in 1..Len(H)} = {In[i].page : i \in 1..Len(In)}
        /\ \A k \in 1..Len(H) :
             /\ H[k].count = Cardinality({i \in 1..Len(In) : In[i].page = H[k].page})
             /\ H[k].count = Cardinality({j \in 1..Len(E) : E[j].shown.page = H[k].page})
        /\ Len(E) = Len(In)
        /\ \A j \in 1..Len(E) :
             E[j].no = Cardinality({i \in 1..j : E[i].shown.page = E[j].shown.page})
        /\ \A j \in 1..(Len(E) - 1) :
             E[j].shown.page = E[j + 1].shown.page =>
               \/ E[j].shown.y < E[j + 1].shown.y
               \/ E[j].shown.y = E[j + 1].shown.y /\ E[j].shown.x <= E[j + 1].shown.x
        /\ \A i \in 1..Len(In) :
             LET Like(r) == SameKey(r, In[i])
                 LikeEntry(e) == SameKey(e.shown, In[i])
                 listed == SelectSeq(E, LikeEntry)
             IN  [k \in 1..Len(listed) |-> listed[k].shown] = SelectSeq(In, Like)
        /\ formatted_text = FormatOcrForPrompt(format_arg)

\* the argument held a block of page 2 before blocks of page 1, and two
\* different blocks of one page at the same (y, x)
C26_Witness ==
  /\ fpc = "returned"
  /\ Len(format_arg) = 3
  /\ format_arg[1].page > format_arg[2].page
  /\ format_arg[2].page = format_arg[3].page
  /\ format_arg[2].bbox = format_arg[3].bbox
  /\ format_arg[2].text # format_arg[3].text

\* the chat request of slot w was answered with success after its save
\* committed
ChatSaved(w) ==
  /\ chat[w].pc = "answered"
  /\ chat[w].answer.code = 200
  /\ chat[w].answer.status = "success"
  /\ chat[w].saved

\* the user message of a request followed by the assistant's response
Exchange(r) ==
  << [role |-> "user", content |-> r.message],
     [role |-> "assistant", content |-> r.result.response] >>

\* the rows of table whose user_id is not user_id
RowsOfOthers(table, user_id) == {i \in DOMAIN table : table[i].user_id # user_id}

\* C21: a list of review rooms or conversations holds only rows whose user_id
\* is the caller's; reading a PDF, PDF info, comments or a conversation by the
\* id of a row of another user is answered 404 and returns nothing of the row;
\* whatever row is returned belongs to the caller.
C21_UserIsolation ==
  LET table == IF view.kind \in {"reviewrooms", "pdf", "pdf_info", "comments"}
               THEN rooms ELSE conversations
  IN  /\ view.kind \in {"reviewrooms", "conversations"} =>
           \A i \in view.ids : table[i].user_id = view.user_id
      /\ (/\ view.kind \in {"pdf", "pdf_info", "comments", "conversation"}
          /\ view.id \in RowsOfOthers(table, view.user_id)) =>
           view.code = 404 /\ view.shown.table = "none" /\ view.ids = {}
      /\ view.shown.table # "none" =>
           /\ view.shown.id = view.id
           /\ table[view.id].user_id = view.user_id

\* both users own a conversation and one of them asked for the other's
C21_Witness ==
  /\ view.kind = "conversation"
  /\ view.code = 404
  /\ view.id \in RowsOfOthers(conversations, view.user_id)
  /\ conversations[view.id].conversation_history # <<>>
  /\ \E i \in DOMAIN conversations : conversations[i].user_id = view.user_id

BothSaved ==
  /\ \A w \in Slots : ChatSaved(w) /\ chat[w].found
  /\ chat[1].conversation_id = chat[2].conversation_id

\* C30: when two chats are saved to one conversation concurrently, the stored
\* history holds the messages of both: it is four messages longer than the
\* history the first of them read, under every interleaving.
C30_NoMessageLost ==
  BothSaved =>
    LET h == conversations[chat[1].conversation_id].conversation_history
        before == Min({Len(chat[w].current_history) : w \in Slots})
    IN  /\ Len(h) = before + 4
        /\ \A w \in Slots : \E k \in 1..Len(h) : h[k].content = chat[w].message

====
